---- MODULE Spec2Model ----
(***************************************************************************)
(* Task records mirrored as markdown checklist lines                      *)
(* (obsidian-task-reminder: src/main.ts, src/TaskModal.ts).               *)
(*                                                                         *)
(* Text is modelled character by character: a string is a sequence of     *)
(* one-character strings, a document is the string the vault returns, and *)
(* split('\n') / join('\n') / trim() / the regular expressions are        *)
(* operators computed the way the JavaScript computes them.               *)
(***************************************************************************)
EXTENDS Integers, Sequences, FiniteSets, TLC

\* the document operations applied to drawn inputs (SpecOps, SpecCodec)
VARIABLES fnOp, fnDoc, fnTask, fnOrig, fnOut, fnOut2, fnParsed

\* the panel: ReminderView.tasks, the stored data, the rendered task items,
\* the vault's documents, the workspace's active note, the number of flows
\* run and of flows hit by an I/O failure, and the last flow's record
VARIABLES tasks, persisted, rendered, docs, activeFile, nOps, nFail, last

\* completion toggles in flight: each handler's position (the await it is
\* suspended at) with what it holds, and the reads and writes of documents
\* in the order they happened
VARIABLES handlers, ioLog

\* the plugin's storage: the content of data.json, the plugin's settings and
\* data objects, how the last onload ended, and what was in memory when the
\* plugin was reloaded, if that was the last step
VARIABLES disk, settings, data, loadState, reloaded

\* the task dialog's tag list (TaskModal.taskTags)
VARIABLES taskTags

fnVars == <<fnOp, fnDoc, fnTask, fnOrig, fnOut, fnOut2, fnParsed>>

viewVars == <<tasks, persisted, rendered, docs, activeFile, nOps, nFail, last>>

raceVars == <<handlers, ioLog>>

storeVars == <<disk, settings, data, loadState, reloaded>>

dialogVars == <<taskTags>>

vars == <<fnVars, viewVars, raceVars, storeVars, dialogVars>>

----------------------------------------------------------------------------
(* Characters and strings *)

NL == "\n"
SP == " "

Whitespace == {" ", "\n", "\t"}

Digits == {"0", "1", "2", "3", "4", "5", "6", "7", "8", "9"}

HEADING == <<"#", "#", " ", "T", "a", "s", "k", "s">>

StartsWith(s, p) == Len(s) >= Len(p) /\ SubSeq(s, 1, Len(p)) = p

RECURSIVE SplitFrom(_, _, _)
SplitFrom(s, i, cur) ==
    IF i > Len(s) THEN <<cur>>
    ELSE IF s[i] = NL THEN <<cur>> \o SplitFrom(s, i + 1, <<>>)
    ELSE SplitFrom(s, i + 1, Append(cur, s[i]))

Split(s) == SplitFrom(s, 1, <<>>)

RECURSIVE Join(_)
Join(lines) ==
    IF lines = <<>> THEN <<>>
    ELSE IF Len(lines) = 1 THEN lines[1]
    ELSE lines[1] \o <<NL>> \o Join(Tail(lines))

RECURSIVE TrimLeft(_)
TrimLeft(s) == IF s # <<>> /\ s[1] \in Whitespace THEN TrimLeft(Tail(s)) ELSE s

RECURSIVE TrimRight(_)
TrimRight(s) ==
    IF s # <<>> /\ s[Len(s)] \in Whitespace
    THEN TrimRight(SubSeq(s, 1, Len(s) - 1))
    ELSE s

Trim(s) == TrimRight(TrimLeft(s))

----------------------------------------------------------------------------
(* Task Line Codec *)

Checkbox(checklist) == IF checklist THEN "x" ELSE " "

RECURSIVE TagsText(_)
TagsText(tags) ==
    IF tags = <<>> THEN <<>>
    ELSE IF Len(tags) = 1 THEN <<"#">> \o tags[1]
    ELSE <<"#">> \o tags[1] \o <<SP>> \o TagsText(Tail(tags))

\* the line text of a task without the final newline (main.ts inline encoder)
TaskLineText(task) ==
    <<"-", " ", "[", Checkbox(task.checklist), "]", " ">> \o task.name
      \o (IF Len(task.tags) > 0 THEN <<SP>> \o TagsText(task.tags) ELSE <<>>)
      \o (IF task.date # <<>> THEN <<SP, "(">> \o task.date \o <<")">> ELSE <<>>)

\* mutant: the date is appended without its leading space
formatTaskLine_noDateSpace(task) ==
    <<"-", " ", "[", Checkbox(task.checklist), "]", " ">> \o task.name
      \o (IF Len(task.tags) > 0 THEN <<SP>> \o TagsText(task.tags) ELSE <<>>)
      \o (IF task.date # <<>> THEN <<"(">> \o task.date \o <<")">> ELSE <<>>)
      \o <<NL>>

formatTaskLine(task) == TaskLineText(task) \o <<NL>>

\* new RegExp(`^- \\[.\\] ${escapedTaskName}(?:[^\\n]*)`).test(line)
taskRegexTest(name, line) ==
    /\ Len(line) >= 6 + Len(name)
    /\ SubSeq(line, 1, 3) = <<"-", " ", "[">>
    /\ line[4] # NL
    /\ SubSeq(line, 5, 6) = <<"]", " ">>
    /\ SubSeq(line, 7, 6 + Len(name)) = name

\* lines.findIndex(line => line.trim() === '## Tasks'), 1-based, 0 when absent
tasksIndexOf(lines) ==
    IF \E i \in 1..Len(lines) : Trim(lines[i]) = HEADING
    THEN CHOOSE i \in 1..Len(lines) :
            /\ Trim(lines[i]) = HEADING
            /\ \A j \in 1..(i - 1) : Trim(lines[j]) # HEADING
    ELSE 0

----------------------------------------------------------------------------
(* Section-scoped mutators, as functions from the text read to the text    *)
(* written.  Each returns the resulting text and whether vault.modify runs *)

NoWrite(content) == [text |-> content, wrote |-> FALSE]

Written(lines) == [text |-> Join(lines), wrote |-> TRUE]

\* mutant: the line is pushed at the end of the document
appendToProjectFile_atEnd(content, task) ==
    LET lines == Split(content)
        tasksIndex == tasksIndexOf(lines)
    IN  IF tasksIndex = 0 THEN NoWrite(content)
        ELSE Written(Append(lines, formatTaskLine(task)))

\* TaskModal.appendToProjectFile / EditTaskModal.appendToProjectFile
appendToProjectFile(content, task) ==
    LET lines == Split(content)
        tasksIndex == tasksIndexOf(lines)
    IN  IF tasksIndex = 0 THEN NoWrite(content)
        ELSE Written(SubSeq(lines, 1, tasksIndex) \o <<formatTaskLine(task)>>
                       \o SubSeq(lines, tasksIndex + 1, Len(lines)))

\* index of the line updateInProjectFile rewrites, 0 when the loop finds none
updateInProjectIndex(lines, tasksIndex, name) ==
    LET hit(i) == /\ taskRegexTest(name, lines[i])
                  /\ \A j \in (tasksIndex + 1)..i : ~StartsWith(lines[j], <<"#">>)
        hits == {i \in (tasksIndex + 1)..Len(lines) : hit(i)}
    IN  IF hits = {} THEN 0 ELSE CHOOSE i \in hits : \A k \in hits : i <= k

\* mutant: the written line keeps its newline (no trim)
updateInProjectFile_noTrim(content, originalName, task) ==
    LET lines == Split(content)
        tasksIndex == tasksIndexOf(lines)
        i == updateInProjectIndex(lines, tasksIndex, originalName)
    IN  IF tasksIndex = 0 THEN NoWrite(content)
        ELSE IF i = 0 THEN NoWrite(content)
        ELSE Written([lines EXCEPT ![i] = formatTaskLine(task)])

\* mutant: the loop does not stop at its first match
updateInProjectFile_noBreak(content, originalName, task) ==
    LET lines == Split(content)
        tasksIndex == tasksIndexOf(lines)
        i == updateInProjectIndex(lines, tasksIndex, originalName)
        hit(k) == /\ k > tasksIndex
                  /\ taskRegexTest(originalName, lines[k])
                  /\ \A j \in (tasksIndex + 1)..k : ~StartsWith(lines[j], <<"#">>)
    IN  IF tasksIndex = 0 THEN NoWrite(content)
        ELSE IF i = 0 THEN NoWrite(content)
        ELSE Written([k \in 1..Len(lines) |->
                        IF hit(k) THEN Trim(formatTaskLine(task)) ELSE lines[k]])

\* EditTaskModal.updateInProjectFile: matches originalTask.name, writes task
updateInProjectFile(content, originalName, task) ==
    LET lines == Split(content)
        tasksIndex == tasksIndexOf(lines)
        i == updateInProjectIndex(lines, tasksIndex, originalName)
    IN  IF tasksIndex = 0 THEN NoWrite(content)
        ELSE IF i = 0 THEN NoWrite(content)
        ELSE Written([lines EXCEPT ![i] = Trim(formatTaskLine(task))])

RECURSIVE removeFilter(_, _, _, _)
removeFilter(lines, i, tasksIndex, name) ==
    IF i > Len(lines) THEN <<>>
    ELSE LET keep == \/ i <= tasksIndex
                     \/ StartsWith(lines[i], <<"#">>)
                     \/ ~taskRegexTest(name, lines[i])
         IN  (IF keep THEN <<lines[i]>> ELSE <<>>)
               \o removeFilter(lines, i + 1, tasksIndex, name)

\* mutant: the filtered lines are written back whether or not a line went
removeFromProjectFile_alwaysWrites(content, name) ==
    LET lines == Split(content)
        tasksIndex == tasksIndexOf(lines)
        filteredLines == removeFilter(lines, 1, tasksIndex, name)
    IN  IF tasksIndex = 0 THEN NoWrite(content)
        ELSE Written(filteredLines)

\* EditTaskModal.removeFromProjectFile
removeFromProjectFile(content, name) ==
    LET lines == Split(content)
        tasksIndex == tasksIndexOf(lines)
        filteredLines == removeFilter(lines, 1, tasksIndex, name)
    IN  IF tasksIndex = 0 THEN NoWrite(content)
        ELSE IF Len(lines) # Len(filteredLines) THEN Written(filteredLines)
        ELSE NoWrite(content)

\* index of the first line of the whole file the regex matches, 0 when none
firstMatchIndex(lines, name) ==
    LET hits == {i \in 1..Len(lines) : taskRegexTest(name, lines[i])}
    IN  IF hits = {} THEN 0 ELSE CHOOSE i \in hits : \A k \in hits : i <= k

\* mutant: the matched line is written with the modal's encoder, newline included
updateTaskInProjectFile_newline(content, task) ==
    LET lines == Split(content)
        i == firstMatchIndex(lines, task.name)
    IN  IF i = 0 THEN NoWrite(content)
        ELSE Written([lines EXCEPT ![i] = formatTaskLine(task)])

\* ReminderView.updateTaskInProjectFile, from vault.read to vault.modify
updateTaskInProjectFile(content, task) ==
    LET lines == Split(content)
        i == firstMatchIndex(lines, task.name)
    IN  IF i = 0 THEN NoWrite(content)
        ELSE Written([lines EXCEPT ![i] = TaskLineText(task)])

\* mutant: when no line matches, the task's line is added at the end
updateTaskInFile_populates(content, task) ==
    LET lines == Split(content)
        i == firstMatchIndex(lines, task.name)
    IN  IF i = 0 THEN Written(Append(lines, TaskLineText(task)))
        ELSE Written([lines EXCEPT ![i] = TaskLineText(task)])

\* ReminderView.updateTaskInFile, from vault.read to vault.modify
updateTaskInFile(content, task) ==
    LET lines == Split(content)
        i == firstMatchIndex(lines, task.name)
    IN  IF i = 0 THEN NoWrite(content)
        ELSE Written([lines EXCEPT ![i] = TaskLineText(task)])

\* EditTaskModal.removeFromSourceFile, from vault.read to vault.modify
removeFromSourceFile(content, name) ==
    LET lines == Split(content)
        filteredLines == SelectSeq(lines, LAMBDA line : ~taskRegexTest(name, line))
    IN  IF Len(lines) # Len(filteredLines) THEN Written(filteredLines)
        ELSE NoWrite(content)

----------------------------------------------------------------------------
(* Decode: ReminderView.parseProjectTasks *)

\* end of the run of non-whitespace characters that starts at i
RECURSIVE runEnd(_, _)
runEnd(s, i) ==
    IF i + 1 <= Len(s) /\ s[i + 1] \notin Whitespace THEN runEnd(s, i + 1) ELSE i

tagAt(s, i) == s[i] = "#" /\ i + 1 <= Len(s) /\ s[i + 1] \notin Whitespace

\* name.match(/#[^\s]+/g).map(tag => tag.substring(1))
RECURSIVE matchTags(_, _)
matchTags(s, i) ==
    IF i > Len(s) THEN <<>>
    ELSE IF tagAt(s, i)
         THEN <<SubSeq(s, i + 1, runEnd(s, i + 1))>> \o matchTags(s, runEnd(s, i + 1) + 1)
         ELSE matchTags(s, i + 1)

\* name.replace(/#[^\s]+/g, '')
RECURSIVE stripTags(_, _)
stripTags(s, i) ==
    IF i > Len(s) THEN <<>>
    ELSE IF tagAt(s, i) THEN stripTags(s, runEnd(s, i + 1) + 1)
    ELSE <<s[i]>> \o stripTags(s, i + 1)

\* /\((\d{4}-\d{2}-\d{2})\)/ matches at position i
dateAt(s, i) ==
    /\ i + 11 <= Len(s)
    /\ s[i] = "("
    /\ \A k \in {1, 2, 3, 4, 6, 7, 9, 10} : s[i + k] \in Digits
    /\ s[i + 5] = "-"
    /\ s[i + 8] = "-"
    /\ s[i + 11] = ")"

dateIndex(s) ==
    LET hits == {i \in 1..Len(s) : dateAt(s, i)}
    IN  IF hits = {} THEN 0 ELSE CHOOSE i \in hits : \A k \in hits : i <= k

\* mutant: the tags keep their '#' (no substring(1))
decodeRest_keepMarker(c, rest) ==
    LET tags == matchTags(rest, 1)
        name1 == IF tags # <<>> THEN Trim(stripTags(rest, 1)) ELSE rest
        d == dateIndex(name1)
        date == IF d = 0 THEN <<>> ELSE SubSeq(name1, d + 1, d + 10)
        name2 == IF d = 0 THEN name1
                 ELSE Trim(SubSeq(name1, 1, d - 1) \o SubSeq(name1, d + 12, Len(name1)))
    IN  [name |-> name2, checklist |-> (c = "x"),
         tags |-> [k \in 1..Len(tags) |-> <<"#">> \o tags[k]], date |-> date]

\* the record parseProjectTasks builds from the text after "- [c] "
decodeRest(c, rest) ==
    LET tags == matchTags(rest, 1)
        name1 == IF tags # <<>> THEN Trim(stripTags(rest, 1)) ELSE rest
        d == dateIndex(name1)
        date == IF d = 0 THEN <<>> ELSE SubSeq(name1, d + 1, d + 10)
        name2 == IF d = 0 THEN name1
                 ELSE Trim(SubSeq(name1, 1, d - 1) \o SubSeq(name1, d + 12, Len(name1)))
    IN  [name |-> name2, checklist |-> (c = "x"), tags |-> tags, date |-> date]

\* mutant: the bracket may hold any character
taskMatch_anyBracket(line) ==
    /\ Len(line) >= 7
    /\ SubSeq(line, 1, 3) = <<"-", " ", "[">>
    /\ line[4] # NL
    /\ SubSeq(line, 5, 6) = <<"]", " ">>
    /\ \A k \in 7..Len(line) : line[k] # NL

\* line.match(/^- \[([ x])\] (.+)$/)
taskMatch(line) ==
    /\ Len(line) >= 7
    /\ SubSeq(line, 1, 3) = <<"-", " ", "[">>
    /\ line[4] \in {" ", "x"}
    /\ SubSeq(line, 5, 6) = <<"]", " ">>
    /\ \A k \in 7..Len(line) : line[k] # NL

RECURSIVE parseLines(_, _, _)
parseLines(lines, i, inTasksSection) ==
    IF i > Len(lines) THEN <<>>
    ELSE IF Trim(lines[i]) = HEADING THEN parseLines(lines, i + 1, TRUE)
    ELSE IF ~inTasksSection THEN parseLines(lines, i + 1, FALSE)
    ELSE IF StartsWith(lines[i], <<"#">>) THEN <<>>
    ELSE IF taskMatch(lines[i])
         THEN <<decodeRest(lines[i][4], SubSeq(lines[i], 7, Len(lines[i])))>>
                \o parseLines(lines, i + 1, TRUE)
         ELSE parseLines(lines, i + 1, TRUE)

parseProjectTasks(content) == parseLines(Split(content), 1, FALSE)

----------------------------------------------------------------------------
(* The two halves of the state, and the value each has while the other runs *)

Files == {"P", "Q", "N"}

\* the documents whose frontmatter says type: Project
Projects == {"P", "Q"}

NoTask == [name |-> <<>>, tags |-> <<>>, date |-> <<>>, checklist |-> FALSE]

NoRecord ==
    [oid |-> 0, name |-> <<>>, tags |-> <<>>, date |-> <<>>, checklist |-> FALSE,
     project |-> "", fileId |-> ""]

Idle ==
    [kind |-> "none", task |-> NoRecord, updated |-> NoRecord, steps |-> <<>>,
     failed |-> {}, escaped |-> FALSE, tasksBefore |-> <<>>, docsBefore |-> <<>>,
     persistedBefore |-> <<>>]

\* the checkbox change handlers that can be in flight
Handlers == {"h1", "h2"}

NoHandler == [pc |-> "idle", oid |-> 0, before |-> FALSE, out |-> [text |-> <<>>, wrote |-> FALSE]]

RaceIdle ==
    /\ handlers = [h \in Handlers |-> NoHandler]
    /\ ioLog = <<>>

\* loadData() before anything was saved
Null == [null |-> TRUE]

\* the one setting followed here; the others are stored and loaded with it
DEFAULT_SETTINGS == [taskSection |-> HEADING]

\* the last step was not an onload
NotReloaded == [kind |-> "none", tasks |-> <<>>, taskSection |-> <<>>]

StoreIdle ==
    /\ disk = Null
    /\ settings = DEFAULT_SETTINGS
    /\ data = [tasks |-> <<>>]
    /\ loadState = "loaded"
    /\ reloaded = NotReloaded

\* no dialog is open
DialogIdle == taskTags = <<>>

FnIdle ==
    /\ fnOp = "init"
    /\ fnDoc = <<>>
    /\ fnTask = NoTask
    /\ fnOrig = <<>>
    /\ fnOut = NoWrite(<<>>)
    /\ fnOut2 = NoWrite(<<>>)
    /\ fnParsed = <<>>

ViewIdle ==
    /\ tasks = <<>>
    /\ persisted = <<>>
    /\ rendered = {}
    /\ docs = [f \in Files |-> HEADING]
    /\ activeFile = ""
    /\ nOps = 0
    /\ nFail = 0
    /\ last = Idle

----------------------------------------------------------------------------
(* Bounded inputs of the document operations *)

MaxDocLines == 3

D1 == <<"2", "0", "2", "4", "-", "0", "5", "-", "0", "1">>

NOTES == <<"#", " ", "N">>

LineA == <<"-", " ", "[", " ", "]", " ", "a", " ", "#", "t">>

LineAB == <<"-", " ", "[", "x", "]", " ", "a", "b">>

LinePool == {HEADING, NOTES, LineA, LineAB}

OpsDocs == {Join(ls) : ls \in UNION {[1..k -> LinePool] : k \in 0..MaxDocLines}}

OpsNames == {<<"a">>, <<"a", "b">>, <<"a", " ">>, <<"c">>}

OpsMatchNames == {<<"a">>, <<"a", " ">>}

OpsTasks ==
    [name : OpsNames, tags : {<<>>, <<<<"t">>>>}, date : {<<>>, D1},
     checklist : BOOLEAN]

InitOps ==
    /\ fnOp = "init"
    /\ fnDoc \in OpsDocs
    /\ fnTask \in OpsTasks
    /\ fnOrig \in OpsMatchNames
    /\ fnOut = NoWrite(fnDoc)
    /\ fnOut2 = NoWrite(fnDoc)
    /\ fnParsed = <<>>
    /\ ViewIdle
    /\ RaceIdle
    /\ StoreIdle
    /\ DialogIdle

\* Insert
ApplyInsert ==
    /\ fnOp = "init"
    /\ fnOp' = "insert"
    /\ fnOut' = appendToProjectFile(fnDoc, fnTask)
    /\ UNCHANGED <<fnDoc, fnTask, fnOrig, fnOut2, fnParsed>>
    /\ UNCHANGED <<viewVars, raceVars, storeVars, dialogVars>>

\* UpdateInPlace keyed by the original name
ApplyUpdate ==
    /\ fnOp = "init"
    /\ fnOp' = "update"
    /\ fnOut' = updateInProjectFile(fnDoc, fnOrig, fnTask)
    /\ UNCHANGED <<fnDoc, fnTask, fnOrig, fnOut2, fnParsed>>
    /\ UNCHANGED <<viewVars, raceVars, storeVars, dialogVars>>

\* the same UpdateInPlace applied to its own result
ApplyUpdateAgain ==
    /\ fnOp = "update"
    /\ fnOp' = "update2"
    /\ fnOut2' = updateInProjectFile(fnOut.text, fnOrig, fnTask)
    /\ UNCHANGED <<fnDoc, fnTask, fnOrig, fnOut, fnParsed>>
    /\ UNCHANGED <<viewVars, raceVars, storeVars, dialogVars>>

\* Remove
ApplyRemove ==
    /\ fnOp = "init"
    /\ fnOp' = "remove"
    /\ fnOut' = removeFromProjectFile(fnDoc, fnOrig)
    /\ UNCHANGED <<fnDoc, fnTask, fnOrig, fnOut2, fnParsed>>
    /\ UNCHANGED <<viewVars, raceVars, storeVars, dialogVars>>

\* the update a completion toggle runs on the project document
ApplyToggleUpdate ==
    /\ fnOp = "init"
    /\ fnOp' = "toggle"
    /\ fnOut' = updateTaskInProjectFile(fnDoc, fnTask)
    /\ UNCHANGED <<fnDoc, fnTask, fnOrig, fnOut2, fnParsed>>
    /\ UNCHANGED <<viewVars, raceVars, storeVars, dialogVars>>

\* Remove by the task's name applied to the result of Insert
ApplyRemoveInserted ==
    /\ fnOp = "insert"
    /\ fnOp' = "insertRemove"
    /\ fnOut2' = removeFromProjectFile(fnOut.text, fnTask.name)
    /\ UNCHANGED <<fnDoc, fnTask, fnOrig, fnOut, fnParsed>>
    /\ UNCHANGED <<viewVars, raceVars, storeVars, dialogVars>>

NextOps ==
    \/ ApplyInsert
    \/ ApplyRemoveInserted
    \/ ApplyUpdate
    \/ ApplyUpdateAgain
    \/ ApplyRemove
    \/ ApplyToggleUpdate

SpecOps == InitOps /\ [][NextOps]_vars

----------------------------------------------------------------------------
(* Vocabulary of the properties: the bounds of the `## Tasks` section *)

\* index of the first line after the heading h that starts with '#'
SectionEnd(lines, h) ==
    LET heads == {i \in (h + 1)..Len(lines) : lines[i] # <<>> /\ lines[i][1] = "#"}
    IN  IF heads = {} THEN Len(lines) + 1 ELSE CHOOSE i \in heads : \A k \in heads : i <= k

\* the lines of the section that carry the checklist prefix and the name
SectionMatches(lines, name) ==
    LET h == tasksIndexOf(lines)
    IN  IF h = 0 THEN {}
        ELSE {i \in (h + 1)..(SectionEnd(lines, h) - 1) : taskRegexTest(name, lines[i])}

\* every line outside the section is still there, unchanged and in place
OutsideUntouched(before, after) ==
    LET old == Split(before)
        new == Split(after)
        h == tasksIndexOf(old)
        e == SectionEnd(old, h)
        tail == Len(old) - e + 1
    IN  IF h = 0 THEN new = old
        ELSE /\ Len(new) >= h + tail
             /\ SubSeq(new, 1, h) = SubSeq(old, 1, h)
             /\ SubSeq(new, Len(new) - tail + 1, Len(new)) = SubSeq(old, e, Len(old))

RECURSIVE IsSubseq(_, _)
IsSubseq(a, b) ==
    IF a = <<>> THEN TRUE
    ELSE IF b = <<>> THEN FALSE
    ELSE IF a[1] = b[1] THEN IsSubseq(Tail(a), Tail(b))
    ELSE IsSubseq(a, Tail(b))

Min(S) == CHOOSE i \in S : \A k \in S : i <= k

RECURSIVE DropAt(_, _, _)
DropAt(lines, i, drop) ==
    IF i > Len(lines) THEN <<>>
    ELSE (IF i \in drop THEN <<>> ELSE <<lines[i]>>) \o DropAt(lines, i + 1, drop)

----------------------------------------------------------------------------
(* Claims about the document operations, checked under SpecOps *)

\* C1 (as claimed): Remove, UpdateInPlace and the update run by a completion
\* toggle never modify or delete a line outside the `## Tasks` section.
C1_SectionScoping ==
    fnOp \in {"update", "remove", "toggle"} => OutsideUntouched(fnDoc, fnOut.text)

\* C5 (as claimed): UpdateInPlace applied twice with the same match name and
\* task gives the text that one application gives, for every document.
C5_IdempotentAlways ==
    fnOp = "update2" => fnOut2.text = fnOut.text

\* C5 (amended): UpdateInPlace applied twice gives the text of one application
\* whenever at most one line of the section matches the match name, or the
\* line written for the task itself matches the match name.
C5_IdempotentUpdate ==
    /\ fnOp = "update2"
    /\ \/ Cardinality(SectionMatches(Split(fnDoc), fnOrig)) <= 1
       \/ taskRegexTest(fnOrig, Trim(TaskLineText(fnTask)))
    => fnOut2.text = fnOut.text

C5_Witness ==
    /\ fnOp = "update2"
    /\ Cardinality(SectionMatches(Split(fnDoc), fnOrig)) >= 2
    /\ fnTask.name # fnOrig
    /\ fnOut.wrote
    /\ fnOut2.wrote
    /\ fnOut.text # fnDoc
    /\ fnOut2.text = fnOut.text

\* C6 (as claimed): UpdateInPlace replaces the first matching line of the
\* section with the encoded line of the task and leaves every other line and
\* the number of lines as they were.
C6_ReplacesWithEncodedLine ==
    fnOp = "update" /\ SectionMatches(Split(fnDoc), fnOrig) # {} =>
        Split(fnOut.text) =
            [Split(fnDoc) EXCEPT ![Min(SectionMatches(Split(fnDoc), fnOrig))] =
                TaskLineText(fnTask)]

\* C6 (amended): UpdateInPlace replaces the first matching line of the section
\* with the encoded line of the task stripped of surrounding whitespace, and
\* leaves every other line and the number of lines as they were.
C6_ReplacesFirstMatch ==
    fnOp = "update" /\ SectionMatches(Split(fnDoc), fnOrig) # {} =>
        Split(fnOut.text) =
            [Split(fnDoc) EXCEPT ![Min(SectionMatches(Split(fnDoc), fnOrig))] =
                Trim(TaskLineText(fnTask))]

C6_Witness ==
    /\ fnOp = "update"
    /\ Cardinality(SectionMatches(Split(fnDoc), fnOrig)) >= 2
    /\ fnTask.name = <<"c">>
    /\ fnTask.tags # <<>>
    /\ fnOut.wrote
    /\ Len(Split(fnOut.text)) = MaxDocLines

\* C8 (as claimed): Remove deletes every line of the `## Tasks` section that
\* matches the checklist prefix plus match name and keeps all remaining lines
\* in their original order and content.
C8_RemoveSectionMatches ==
    fnOp = "remove" =>
        Split(fnOut.text) =
            DropAt(Split(fnDoc), 1, SectionMatches(Split(fnDoc), fnOrig))

\* C9: Insert places the encoded line of the task as the first line after the
\* `## Tasks` heading and leaves the pre-existing lines in their order.
C9_InsertFirstAfterHeading ==
    fnOp = "insert" /\ tasksIndexOf(Split(fnDoc)) # 0 =>
        LET old == Split(fnDoc)
            new == Split(fnOut.text)
            h == tasksIndexOf(old)
        IN  /\ Len(new) > h
            /\ SubSeq(new, 1, h) = SubSeq(old, 1, h)
            /\ new[h + 1] = TaskLineText(fnTask)
            /\ IsSubseq(SubSeq(old, h + 1, Len(old)), SubSeq(new, h + 2, Len(new)))

C9_Witness ==
    /\ fnOp = "insert"
    /\ tasksIndexOf(Split(fnDoc)) = 1
    /\ Len(Split(fnDoc)) = MaxDocLines
    /\ Split(fnDoc)[2] = LineA
    /\ Split(fnOut.text)[2] = TaskLineText(fnTask)
    /\ fnOut.wrote

\* no line of the document matches the name
NoLineMatches(content, name) ==
    \A i \in 1..Len(Split(content)) : ~taskRegexTest(name, Split(content)[i])

\* C12: Insert, UpdateInPlace and Remove on a document without the heading,
\* and UpdateInPlace and Remove when no line matches the name, call no
\* document write and leave the text unchanged.
C12_NoOpNoWrite ==
    /\ fnOp \in {"insert", "update", "remove"} /\ tasksIndexOf(Split(fnDoc)) = 0
          => ~fnOut.wrote /\ fnOut.text = fnDoc
    /\ fnOp \in {"update", "remove"} /\ NoLineMatches(fnDoc, fnOrig)
          => ~fnOut.wrote /\ fnOut.text = fnDoc

C12_Witness ==
    /\ fnOp = "remove"
    /\ tasksIndexOf(Split(fnDoc)) = 1
    /\ Len(Split(fnDoc)) = 2
    /\ Split(fnDoc)[2] = LineAB
    /\ NoLineMatches(fnDoc, fnOrig)
    /\ ~fnOut.wrote

\* C26: on a document with the heading and no line matching the task's
\* name, Insert followed by Remove by that name gives back the document text.
C26_InsertRemoveRoundTrip ==
    (/\ fnOp = "insertRemove"
     /\ tasksIndexOf(Split(fnDoc)) # 0
     /\ NoLineMatches(fnDoc, fnTask.name)) => fnOut2.text = fnDoc

\* the task name a checklist line decodes to
LineName(line) == decodeRest(line[4], SubSeq(line, 7, Len(line))).name

\* a checklist line of another task whose name begins with `name`
OtherTaskLine(name, line) ==
    /\ taskMatch(line)
    /\ LineName(line) # name
    /\ StartsWith(LineName(line), name)

\* C25: UpdateInPlace, Remove and the toggle update keyed by a name never
\* rewrite or delete the line of another task whose name begins with it.
C25_NameMatchIsExact ==
    LET before == Split(fnDoc)
        after == Split(fnOut.text)
        key == IF fnOp = "toggle" THEN fnTask.name ELSE fnOrig
    IN  /\ fnOp \in {"update", "toggle"} =>
            \A i \in 1..Len(before) :
                OtherTaskLine(key, before[i]) => (i <= Len(after) /\ after[i] = before[i])
        /\ fnOp = "remove" =>
            SelectSeq(after, LAMBDA l : OtherTaskLine(key, l))
              = SelectSeq(before, LAMBDA l : OtherTaskLine(key, l))

----------------------------------------------------------------------------
(* The codec on its own: Decode applied to a document holding Encode(task) *)

D2 == <<"2", "0", "2", "4", "-", "0", "6", "-", "0", "2">>

CodecNames ==
    { <<"a">>,
      <<"a", " ", "b">>,
      <<"a", "#">>,
      <<"a", " ", "#", "b">>,
      <<"a", " ", "(">> \o D2 \o <<")">> }

CodecTags ==
    { <<>>,
      << <<"t">> >>,
      << <<"t">>, <<"u">> >>,
      << <<"t">>, <<"t">> >>,
      << <<"t", " ", "u">> >>,
      << <<>> >> }

CodecTasks ==
    [name : CodecNames, tags : CodecTags, date : {<<>>, D1}, checklist : BOOLEAN]

InitCodec ==
    /\ fnOp = "init"
    /\ fnTask \in CodecTasks
    /\ fnDoc = <<>>
    /\ fnOrig = <<>>
    /\ fnOut = NoWrite(<<>>)
    /\ fnOut2 = NoWrite(<<>>)
    /\ fnParsed = <<>>
    /\ ViewIdle
    /\ RaceIdle
    /\ StoreIdle
    /\ DialogIdle

\* Encode the task under the heading, then parse the document
ApplyRoundTrip ==
    /\ fnOp = "init"
    /\ fnOp' = "roundtrip"
    /\ fnDoc' = HEADING \o <<NL>> \o formatTaskLine(fnTask)
    /\ fnParsed' = parseProjectTasks(fnDoc')
    /\ UNCHANGED <<fnTask, fnOrig, fnOut, fnOut2>>
    /\ UNCHANGED <<viewVars, raceVars, storeVars, dialogVars>>

\* Encode the task with the dialog's encoder, and let the toggle path's
\* inline encoder rewrite a bare line of the same name
ApplyEncode ==
    /\ fnOp = "init"
    /\ fnOp' = "encode"
    /\ fnDoc' = formatTaskLine(fnTask)
    /\ fnOrig' = <<"-", " ", "[", " ", "]", " ">> \o fnTask.name
    /\ fnOut' = updateTaskInProjectFile(fnOrig', fnTask)
    /\ fnOut2' = updateTaskInFile(fnOrig', fnTask)
    /\ UNCHANGED <<fnTask, fnParsed>>
    /\ UNCHANGED <<viewVars, raceVars, storeVars, dialogVars>>

NextCodec ==
    \/ ApplyRoundTrip
    \/ ApplyEncode

SpecCodec == InitCodec /\ [][NextCodec]_vars

ToSet(seq) == {seq[i] : i \in 1..Len(seq)}

\* the name holds no '#'-prefixed token and no parenthesized date
PlainName(name) ==
    /\ \A i \in 1..Len(name) : ~tagAt(name, i)
    /\ \A i \in 1..Len(name) : ~dateAt(name, i)

\* every tag is non-empty and free of whitespace
PlainTags(tags) ==
    \A i \in 1..Len(tags) :
        /\ tags[i] # <<>>
        /\ \A k \in 1..Len(tags[i]) : tags[i][k] \notin Whitespace

RoundTrips(task, parsed) ==
    /\ Len(parsed) = 1
    /\ parsed[1].checklist = task.checklist
    /\ parsed[1].date = task.date
    /\ ToSet(parsed[1].tags) = ToSet(task.tags)

\* C10 (as claimed): for every task whose name holds no parenthesized date and
\* no '#'-prefixed token, Decode(Encode(task)) has the task's checklist, date
\* and set of tags.
C10_RoundTripAnyTags ==
    fnOp = "roundtrip" /\ PlainName(fnTask.name) => RoundTrips(fnTask, fnParsed)

\* C10 (amended): the round trip holds for every such task whose tags are
\* each non-empty and free of whitespace.
C10_RoundTrip ==
    fnOp = "roundtrip" /\ PlainName(fnTask.name) /\ PlainTags(fnTask.tags)
        => RoundTrips(fnTask, fnParsed)

C10_Witness ==
    /\ fnOp = "roundtrip"
    /\ PlainName(fnTask.name)
    /\ fnTask.name = <<"a", "#">>
    /\ Len(fnTask.tags) = 2
    /\ fnTask.date = D1
    /\ fnTask.checklist
    /\ RoundTrips(fnTask, fnParsed)
    /\ fnParsed[1].name = fnTask.name

----------------------------------------------------------------------------
(* The panel and its flows: Create, Toggle, Edit, Delete *)

MaxOps == 2

MaxFail == 1

TODAY == D1

Names == {<<"a">>, <<"a", "b">>}

TagChoices == {<<>>, << <<"t">> >>}

\* '-' sorts before the digits, as its code unit does
CharRank(c) == IF c = "-" THEN 0 ELSE IF c \in Digits THEN 1 + (CHOOSE n \in 0..9 : <<"0", "1", "2", "3", "4", "5", "6", "7", "8", "9">>[n + 1] = c) ELSE 11

\* a > b on strings
RECURSIVE StrGreater(_, _)
StrGreater(a, b) ==
    IF a = <<>> THEN FALSE
    ELSE IF b = <<>> THEN TRUE
    ELSE IF a[1] = b[1] THEN StrGreater(Tail(a), Tail(b))
    ELSE CharRank(a[1]) > CharRank(b[1])

getCompletedTasks(ts) == {ts[i] : i \in {k \in 1..Len(ts) : ts[k].checklist}}

getTodayTasks(ts) ==
    {ts[i] : i \in {k \in 1..Len(ts) : ts[k].date = TODAY /\ ~ts[k].checklist}}

getScheduledTasks(ts) ==
    {ts[i] : i \in {k \in 1..Len(ts) : StrGreater(ts[k].date, TODAY) /\ ~ts[k].checklist}}

\* renderTabs: the task items that get a checkbox and a click listener
renderTabs(ts) == getTodayTasks(ts) \cup getScheduledTasks(ts) \cup getCompletedTasks(ts)

\* getProjectFiles(app): the project documents present in the vault
getProjectFiles(d) == DOMAIN d \cap Projects

\* vault.read ... vault.modify of file f inside a try/catch: the text becomes
\* res unless the read or the write fails
Modify(d, f, res, bad) == IF f \in bad THEN d ELSE [d EXCEPT ![f] = res]

\* the project note P: a checklist line the user wrote above the heading, the
\* `## Tasks` section, and a second section below it
PDocs == {Join(<<LineA, HEADING, NOTES>>)}

\* the plain note N holds a checklist line the user wrote
NDocs == {LineA}

\* the project note Q holds the heading alone
QDocs == {HEADING}

InitDocs == {d \in [Files -> PDocs \cup QDocs \cup NDocs] :
                d["P"] \in PDocs /\ d["Q"] \in QDocs /\ d["N"] \in NDocs}

\* a task of an earlier session: its project note X is gone from the vault
Stored ==
    [oid |-> 0, name |-> <<"a", "b">>, tags |-> << <<"t">> >>, date |-> TODAY,
     checklist |-> FALSE, project |-> "X", fileId |-> "N"]

\* a record stored by an early version: it has no tags
Legacy ==
    [oid |-> 0, name |-> <<"a", "b">>, date |-> TODAY, checklist |-> FALSE,
     project |-> "X", fileId |-> "N"]

\* onload: tags: Array.isArray(task.tags) ? task.tags : []
loadTasks(stored) ==
    [k \in 1..Len(stored) |->
        IF "tags" \in DOMAIN stored[k] THEN stored[k]
        ELSE [oid |-> stored[k].oid, name |-> stored[k].name, tags |-> <<>>,
              date |-> stored[k].date, checklist |-> stored[k].checklist,
              project |-> stored[k].project, fileId |-> stored[k].fileId]]

\* what loadData() may return
StoredData == {<<>>, <<Stored>>, <<Legacy>>}

\* onload has read the stored tasks and the panel is open
InitView ==
    /\ persisted \in {loadTasks(stored) : stored \in StoredData}
    /\ tasks = persisted
    /\ rendered = renderTabs(persisted)
    /\ docs \in InitDocs
    /\ activeFile = ""
    /\ nOps = 0
    /\ nFail = 0
    /\ last = Idle

\* the sets of documents whose I/O may fail during one flow over `touched`
BadChoices(touched) ==
    {{}} \cup (IF nFail < MaxFail THEN {{f} : f \in touched} ELSE {})

Flow(kind, task, updated, steps, failed, escaped) ==
    [kind |-> kind, task |-> task, updated |-> updated, steps |-> steps,
     failed |-> failed, escaped |-> escaped, tasksBefore |-> tasks,
     docsBefore |-> docs, persistedBefore |-> persisted]

\* the step labels of a document operation: attempted, and failed if so
Step(label, f, bad) == IF f \in bad THEN <<label, "error">> ELSE <<label>>

\* mutant: the submit does not look at the name
nameMissing_never(name) == FALSE

\* !this.taskName
nameMissing(name) == name = <<>>

\* submitTask with no name: the inline message is shown and the submit returns
Rejected(kind, r) ==
    /\ nOps < MaxOps
    /\ nOps' = nOps + 1
    /\ last' = Flow(kind, r, NoRecord, <<"errorMessage">>, {}, FALSE)
    /\ UNCHANGED <<tasks, persisted, rendered, docs, nFail>>
    /\ UNCHANGED <<activeFile, fnVars, raceVars, storeVars, dialogVars>>

\* TaskModal.submitTask followed by ReminderView.addTask
Create(name, tags, date, checklist, project, bad) ==
    IF nameMissing(name) THEN Rejected("create", NoRecord) ELSE
    LET active == activeFile
        task == [oid |-> nOps + 1, name |-> name, tags |-> tags, date |-> date,
                 checklist |-> checklist, project |-> project, fileId |-> active]
        d1 == IF project # ""
              THEN Modify(docs, project, appendToProjectFile(docs[project], task).text, bad)
              ELSE docs
        tasks1 == Append(tasks, task)
        d2 == IF active # ""
              THEN Modify(d1, active, updateTaskInFile(d1[active], task).text, bad)
              ELSE d1
        steps == (IF project # "" THEN Step("appendToProjectFile", project, bad) ELSE <<>>)
                   \o <<"push", "saveCallback">>
                   \o (IF active # "" THEN Step("updateTaskInFile", active, bad) ELSE <<>>)
                   \o (IF project # "" THEN <<"TypeError">> ELSE <<"renderTabs", "close">>)
    IN  /\ nOps < MaxOps
        /\ project \in {""} \cup getProjectFiles(docs)
        /\ bad \in BadChoices(({project} \cup {active}) \ {""})
        /\ tasks' = tasks1
        /\ persisted' = tasks1
        /\ docs' = d2
        \* this.projectFiles is never assigned: addTask throws before renderTabs
        /\ rendered' = IF project # "" THEN rendered ELSE renderTabs(tasks1)
        /\ nOps' = nOps + 1
        /\ nFail' = nFail + Cardinality(bad)
        /\ last' = Flow("create", task, task, steps, bad, project # "")
        /\ UNCHANGED <<activeFile, fnVars, raceVars, storeVars, dialogVars>>

\* the object the list item's closure holds, replaced where the list holds it
ReplaceObject(ts, new) == [i \in 1..Len(ts) |-> IF ts[i].oid = new.oid THEN new ELSE ts[i]]

\* the checkbox change handler of a rendered task item
Toggle(r, bad) ==
    LET task == [r EXCEPT !.checklist = ~r.checklist]
        tasks1 == ReplaceObject(tasks, task)
        inProject == task.project # "" /\ task.project \in getProjectFiles(docs)
        inFile == task.fileId # "" /\ task.fileId \in DOMAIN docs
        d1 == IF inProject
              THEN Modify(docs, task.project,
                          updateTaskInProjectFile(docs[task.project], task).text, bad)
              ELSE docs
        d2 == IF inFile
              THEN Modify(d1, task.fileId, updateTaskInFile(d1[task.fileId], task).text, bad)
              ELSE d1
        steps == <<"checklist", "saveCallback">>
                   \o (IF inProject THEN Step("updateTaskInProjectFile", task.project, bad) ELSE <<>>)
                   \o (IF inFile THEN Step("updateTaskInFile", task.fileId, bad) ELSE <<>>)
                   \o <<"renderTabs">>
    IN  /\ nOps < MaxOps
        /\ r \in rendered
        /\ bad \in BadChoices((IF inProject THEN {task.project} ELSE {})
                                 \cup (IF inFile THEN {task.fileId} ELSE {}))
        /\ tasks' = tasks1
        /\ persisted' = tasks1
        /\ docs' = d2
        /\ rendered' = renderTabs(tasks1)
        /\ nOps' = nOps + 1
        /\ nFail' = nFail + Cardinality(bad)
        /\ last' = Flow("toggle", r, task, steps, bad, FALSE)
        /\ UNCHANGED <<activeFile, fnVars, raceVars, storeVars, dialogVars>>



\* this.tasks.findIndex(t => t.name === task.name && t.date === task.date)
findIndex(ts, task) ==
    LET hits == {i \in 1..Len(ts) : ts[i].name = task.name /\ ts[i].date = task.date}
    IN  IF hits = {} THEN 0 ELSE CHOOSE i \in hits : \A k \in hits : i <= k

MaxChanged == 1

DateChoices == {TODAY, D2}

\* the fields the user has changed in the edit dialog
Changed(r, name, tags, date, checklist, project) ==
    (IF name # r.name THEN {"name"} ELSE {})
      \cup (IF tags # r.tags THEN {"tags"} ELSE {})
      \cup (IF date # r.date THEN {"date"} ELSE {})
      \cup (IF checklist # r.checklist THEN {"checklist"} ELSE {})
      \cup (IF project # r.project THEN {"project"} ELSE {})

\* EditTaskModal on the rendered item r: openModal, submitTask, and the list
\* view's update callback
Edit(r, name, tags, date, checklist, project, bad) ==
    IF nameMissing(name) THEN r \in rendered /\ Rejected("edit", r) ELSE
    LET active == activeFile
        updatedTask ==
            [oid |-> nOps + 1, name |-> name, tags |-> tags, date |-> date,
             checklist |-> checklist, project |-> project,
             fileId |-> IF active # "" THEN active ELSE r.fileId]
        projectFiles == getProjectFiles(docs)
        changed == project # r.project
        doRemove == changed /\ r.project # "" /\ r.project \in projectFiles
        doAppend == changed /\ project # "" /\ project \in projectFiles
        doUpdate == ~changed /\ project # "" /\ project \in projectFiles
        doView == r.project # "" /\ r.project \in projectFiles
        d1 == IF doRemove
              THEN Modify(docs, r.project,
                          removeFromProjectFile(docs[r.project], r.name).text, bad)
              ELSE docs
        d2 == IF doAppend
              THEN Modify(d1, project, appendToProjectFile(d1[project], updatedTask).text, bad)
              ELSE d1
        d3 == IF doUpdate
              THEN Modify(d2, project,
                          updateInProjectFile(d2[project], r.name, updatedTask).text, bad)
              ELSE d2
        taskIndex == findIndex(tasks, r)
        tasks1 == IF taskIndex > 0 THEN [tasks EXCEPT ![taskIndex] = updatedTask] ELSE tasks
        \* the callback passes the task of its closure, not updatedTask
        d4 == IF doView
              THEN Modify(d3, r.project,
                          updateTaskInProjectFile(d3[r.project], r).text, bad)
              ELSE d3
        steps == (IF doRemove THEN Step("removeFromProjectFile", r.project, bad) ELSE <<>>)
                   \o (IF doAppend THEN Step("appendToProjectFile", project, bad) ELSE <<>>)
                   \o (IF doUpdate THEN Step("updateInProjectFile", project, bad) ELSE <<>>)
                   \o <<"replace", "saveCallback">>
                   \o (IF doView THEN Step("updateTaskInProjectFile", r.project, bad) ELSE <<>>)
                   \o <<"renderTabs", "close">>
    IN  /\ nOps < MaxOps
        /\ r \in rendered
        /\ project \in {r.project, ""} \cup projectFiles
        /\ bad \in BadChoices(({r.project, project} \cap projectFiles))
        /\ tasks' = tasks1
        /\ persisted' = tasks1
        /\ docs' = d4
        /\ rendered' = renderTabs(tasks1)
        /\ nOps' = nOps + 1
        /\ nFail' = nFail + Cardinality(bad)
        /\ last' = Flow("edit", r, updatedTask, steps, bad, FALSE)
        /\ UNCHANGED <<activeFile, fnVars, raceVars, storeVars, dialogVars>>

\* this.tasks.filter(t => !(t.name === task.name && t.date === task.date))
deletionFilter(ts, task) ==
    SelectSeq(ts, LAMBDA t : ~(t.name = task.name /\ t.date = task.date))

\* EditTaskModal.deleteTask on the rendered item r, and
\* ReminderView.handleTaskDeletion through the update callback
Delete(r, bad) ==
    LET projectFiles == getProjectFiles(docs)
        doRemove == r.project # "" /\ r.project \in projectFiles
        doSource == r.fileId # "" /\ r.fileId \in DOMAIN docs
        d1 == IF doRemove
              THEN Modify(docs, r.project,
                          removeFromProjectFile(docs[r.project], r.name).text, bad)
              ELSE docs
        d2 == IF doSource
              THEN Modify(d1, r.fileId, removeFromSourceFile(d1[r.fileId], r.name).text, bad)
              ELSE d1
        tasks1 == deletionFilter(tasks, r)
        \* this.projectFiles is never assigned: handleTaskDeletion throws, the
        \* callback stops before saveCallback and deleteTask's catch logs it
        throws == r.project # ""
        steps == (IF doRemove THEN Step("removeFromProjectFile", r.project, bad) ELSE <<>>)
                   \o (IF doSource THEN Step("removeFromSourceFile", r.fileId, bad) ELSE <<>>)
                   \o <<"filter">>
                   \o (IF throws THEN <<"TypeError">>
                       ELSE <<"saveCallback", "renderTabs", "saveCallback", "renderTabs", "close">>)
    IN  /\ nOps < MaxOps
        /\ r \in rendered
        /\ bad \in BadChoices((IF doRemove THEN {r.project} ELSE {})
                                 \cup (IF doSource THEN {r.fileId} ELSE {}))
        /\ tasks' = tasks1
        /\ persisted' = IF throws THEN persisted ELSE tasks1
        /\ docs' = d2
        /\ rendered' = IF throws THEN rendered ELSE renderTabs(tasks1)
        /\ nOps' = nOps + 1
        /\ nFail' = nFail + Cardinality(bad)
        /\ last' = Flow("delete", r, NoRecord, steps, bad, FALSE)
        /\ UNCHANGED <<activeFile, fnVars, raceVars, storeVars, dialogVars>>

\* the panel is closed and opened again: a new ReminderView over the
\* plugin's data.tasks, and onOpen renders it
OpenView ==
    /\ last.kind # "open"
    /\ tasks' = persisted
    /\ rendered' = renderTabs(persisted)
    /\ last' = Flow("open", NoRecord, NoRecord, <<"renderTabs">>, {}, FALSE)
    /\ UNCHANGED <<persisted, docs, nOps, nFail>>
    /\ UNCHANGED <<activeFile, fnVars, raceVars, storeVars, dialogVars>>

\* the note that is active when a dialog opens: none, or the plain note
ActiveChoices == {"", "N"}

\* the user opens or leaves the plain note: workspace.getActiveFile() changes
SetActive(f) ==
    /\ f # activeFile
    /\ activeFile' = f
    /\ UNCHANGED <<tasks, persisted, rendered, docs, nOps, nFail, last>>
    /\ UNCHANGED <<fnVars, raceVars, storeVars, dialogVars>>

Init == InitView /\ FnIdle /\ RaceIdle /\ StoreIdle /\ DialogIdle

\* what the user can leave in the fields of the edit dialog of item r
EditChoices(r) ==
    {c \in [name : Names, tags : TagChoices, date : DateChoices, checklist : BOOLEAN,
            project : {r.project, ""} \cup getProjectFiles(docs)] :
        Cardinality(Changed(r, c.name, c.tags, c.date, c.checklist, c.project))
            <= MaxChanged}
      \cup {[name |-> <<>>, tags |-> r.tags, date |-> r.date, checklist |-> r.checklist,
              project |-> r.project]}

Next ==
    \/ \E name \in Names \cup {<<>>}, project \in {""} \cup getProjectFiles(docs) :
            \E bad \in BadChoices(({project} \cup {activeFile}) \ {""}) :
                Create(name, <<>>, TODAY, FALSE, project, bad)
    \/ \E r \in rendered :
            \E bad \in BadChoices(({r.project} \cap getProjectFiles(docs))
                                     \cup ({r.fileId} \cap DOMAIN docs)) :
                Toggle(r, bad)
    \/ \E r \in rendered :
            \E c \in EditChoices(r) :
                \E bad \in BadChoices({r.project, c.project} \cap getProjectFiles(docs)) :
                    Edit(r, c.name, c.tags, c.date, c.checklist, c.project, bad)
    \/ \E r \in rendered :
            \E bad \in BadChoices(({r.project} \cap getProjectFiles(docs))
                                     \cup ({r.fileId} \cap DOMAIN docs)) :
                Delete(r, bad)
    \/ OpenView
    \/ \E f \in ActiveChoices : SetActive(f)

Spec == Init /\ [][Next]_vars

\* the pieces of seqs with sep between consecutive pieces
RECURSIVE JoinWith(_, _)
JoinWith(seqs, sep) ==
    IF Len(seqs) = 0 THEN <<>>
    ELSE IF Len(seqs) = 1 THEN seqs[1]
    ELSE JoinWith(SubSeq(seqs, 1, Len(seqs) - 1), sep) \o sep \o seqs[Len(seqs)]

\* the line the format rules give for name, tags, date and checklist
EncodedText(name, tags, date, checklist) ==
    <<"-", " ", "[">> \o (IF checklist THEN <<"x">> ELSE <<" ">>) \o <<"]", " ">>
      \o name
      \o (IF tags # <<>>
          THEN <<" ">> \o JoinWith([i \in 1..Len(tags) |-> <<"#">> \o tags[i]], <<" ">>)
          ELSE <<>>)
      \o (IF date # <<>> THEN <<" ", "(">> \o date \o <<")">> ELSE <<>>)

\* C11: Encode returns exactly "- [" + mark + "] " + name, then the tags each
\* prefixed with '#' and space-joined after one space when there are tags,
\* then " (" + date + ")" when there is a date, then a newline; the line the
\* toggle path's inline encoders write is the same without the newline.
C11_EncodeFormat ==
    fnOp = "encode" =>
        LET text == EncodedText(fnTask.name, fnTask.tags, fnTask.date, fnTask.checklist)
        IN  /\ fnDoc = text \o <<NL>>
            /\ fnOut.wrote /\ fnOut.text = text
            /\ fnOut2.wrote /\ fnOut2.text = text

C11_Witness ==
    /\ fnOp = "encode"
    /\ fnTask.name = <<"a", " ", "b">>
    /\ fnTask.tags = << <<"t">>, <<"u">> >>
    /\ fnTask.date = D1
    /\ fnTask.checklist
    /\ fnDoc = <<"-", " ", "[", "x", "]", " ", "a", " ", "b", " ", "#", "t", " ", "#", "u",
                 " ", "(", "2", "0", "2", "4", "-", "0", "5", "-", "0", "1", ")", "\n">>

----------------------------------------------------------------------------
(* Claims about the flows, checked under Spec *)

Range(seq) == {seq[i] : i \in 1..Len(seq)}

FlowKinds == {"create", "edit", "toggle", "delete"}

\* the documents that mirror task t in vault d
Mirrors(t, d) == ({t.project} \cap getProjectFiles(d)) \cup ({t.fileId} \cap DOMAIN d)

\* the list the flow recorded in `last` is meant to leave in memory
ListAfter(l) ==
    IF l.kind = "create" THEN Append(l.tasksBefore, l.task)
    ELSE IF l.kind = "toggle" THEN ReplaceObject(l.tasksBefore, l.updated)
    ELSE IF l.kind = "edit"
         THEN IF findIndex(l.tasksBefore, l.task) = 0 THEN l.tasksBefore
              ELSE [l.tasksBefore EXCEPT ![findIndex(l.tasksBefore, l.task)] = l.updated]
    ELSE deletionFilter(l.tasksBefore, l.task)

ProjectSteps ==
    {"appendToProjectFile", "updateInProjectFile", "removeFromProjectFile",
     "updateTaskInProjectFile"}

\* C2 (as claimed): after a Create or Edit flow of a task whose project
\* document exists and has the heading, the section of that document holds a
\* checklist line with the task's current name (no I/O failure involved).
C2_ProjectLineExists ==
    /\ last.kind \in {"create", "edit"}
    /\ nFail = 0
    /\ last.updated.project \in getProjectFiles(docs)
    /\ tasksIndexOf(Split(docs[last.updated.project])) # 0
    => SectionMatches(Split(docs[last.updated.project]), last.updated.name) # {}

\* C3 (as claimed): for a task whose project has no document, a flow writes
\* no document in its project step, mutates the in-memory list and persists
\* the mutated list.
C3_MissingProjectNoOp ==
    /\ last.kind \in FlowKinds
    /\ last.task.project # ""
    /\ last.task.project \notin getProjectFiles(last.docsBefore)
    /\ last.kind = "edit" => last.updated.project = last.task.project
    => /\ Range(last.steps) \cap ProjectSteps = {}
       /\ tasks = ListAfter(last)
       /\ persisted = tasks

\* the file-mutating steps a flow has for its task
ExpectedSteps(l) ==
    LET old == {l.task.project} \cap getProjectFiles(l.docsBefore)
        new == {l.updated.project} \cap getProjectFiles(l.docsBefore)
        file == {l.task.fileId} \cap DOMAIN l.docsBefore
    IN  IF l.kind = "create" THEN (IF new # {} THEN {"appendToProjectFile"} ELSE {})
        ELSE IF l.kind = "toggle"
             THEN (IF old # {} THEN {"updateTaskInProjectFile"} ELSE {})
                    \cup (IF file # {} THEN {"updateTaskInFile"} ELSE {})
        ELSE IF l.kind = "edit"
             THEN IF l.task.project = l.updated.project
                  THEN (IF new # {} THEN {"updateInProjectFile"} ELSE {})
                  ELSE (IF old # {} THEN {"removeFromProjectFile"} ELSE {})
                         \cup (IF new # {} THEN {"appendToProjectFile"} ELSE {})
        ELSE (IF old # {} THEN {"removeFromProjectFile"} ELSE {})
               \cup (IF file # {} THEN {"removeFromSourceFile"} ELSE {})

\* C4 (as claimed): when the I/O of a mirrored document fails during a flow,
\* no error escapes the flow, every file-mutating step of the flow is still
\* attempted, and the list is mutated and persisted.
C4_FailureContained ==
    last.kind \in FlowKinds /\ last.failed # {} =>
        /\ ~last.escaped
        /\ ExpectedSteps(last) \subseteq Range(last.steps)
        /\ tasks = ListAfter(last)
        /\ persisted = tasks

SameExceptBracket(a, b) ==
    /\ Len(a) = Len(b)
    /\ \A k \in 1..Len(a) : k # 4 => a[k] = b[k]

\* C7 (as claimed): a toggle changes, in each mirrored document, only the
\* bracket character of one line; all other text is unchanged.
C7_OnlyBracketChanges ==
    last.kind = "toggle" =>
        \A f \in Mirrors(last.updated, docs) :
            LET old == Split(last.docsBefore[f])
                new == Split(docs[f])
            IN  /\ Len(new) = Len(old)
                /\ \A i \in 1..Len(old) : SameExceptBracket(old[i], new[i])

\* C7 (amended): a toggle replaces, in each mirrored document, the first line
\* that starts with the checklist prefix and the task's name by the encoding
\* of the task's current state, and leaves all other lines unchanged; when
\* that line was the task's encoding before the toggle, only its bracket
\* character changes.
C7_ToggleRewritesMatchedLine ==
    last.kind = "toggle" =>
        \A f \in Mirrors(last.updated, docs) \ last.failed :
            LET old == Split(last.docsBefore[f])
                new == Split(docs[f])
                i == firstMatchIndex(old, last.task.name)
            IN  IF i = 0 THEN new = old
                ELSE /\ new = [old EXCEPT ![i] = TaskLineText(last.updated)]
                     /\ old[i] = TaskLineText(last.task) =>
                            /\ SameExceptBracket(old[i], new[i])
                            /\ new[i][4] # old[i][4]

C7_Witness ==
    /\ last.kind = "toggle"
    /\ last.updated.checklist
    /\ \E f \in Mirrors(last.updated, docs) :
          LET old == Split(last.docsBefore[f])
              new == Split(docs[f])
              i == firstMatchIndex(old, last.task.name)
          IN  /\ i # 0
              /\ old[i] = TaskLineText(last.task)
              /\ new[i] = TaskLineText(last.updated)
              /\ new[i] # old[i]

\* C13: submitting the create or the edit dialog with an empty name changes
\* neither the in-memory list, the persisted list nor any document, and the
\* dialog is not closed.
C13_EmptyNameAborts ==
    last.kind \in {"create", "edit"} /\ last.updated.name = <<>> =>
        /\ tasks = last.tasksBefore
        /\ persisted = last.persistedBefore
        /\ docs = last.docsBefore
        /\ "close" \notin Range(last.steps)

C13_Witness ==
    /\ last.kind = "edit"
    /\ last.updated.name = <<>>
    /\ last.task.project \in getProjectFiles(docs)
    /\ last.steps = <<"errorMessage">>
    /\ Len(tasks) = 2

\* the edit dialog was submitted with a name and no document I/O failed
EditDone == last.kind = "edit" /\ last.updated.name # <<>> /\ last.failed = {}

\* C14 (as claimed): after an Edit flow that keeps the project of a task with
\* a project document, the line of the section that matched the original
\* name is the encoding of the updated task, and the in-memory list holds the
\* updated task.
C14_EditUpdatesLine ==
    /\ EditDone
    /\ last.updated.project = last.task.project
    /\ last.task.project \in getProjectFiles(docs)
    => LET old == Split(last.docsBefore[last.task.project])
           new == Split(docs[last.task.project])
           i == updateInProjectIndex(old, tasksIndexOf(old), last.task.name)
       IN  /\ i # 0 => /\ Len(new) = Len(old)
                       /\ new[i] \in {TaskLineText(last.updated),
                                      Trim(formatTaskLine(last.updated))}
           /\ \E k \in 1..Len(tasks) : tasks[k] = last.updated

\* C15 (as claimed): after a Delete flow the task is in neither the in-memory
\* list nor the persisted list, the section of its project document holds no
\* line matching its name, and its origin document holds no such line at all.
C15_DeleteRemovesEverywhere ==
    last.kind = "delete" /\ last.failed = {} =>
        /\ \A k \in 1..Len(tasks) : tasks[k].oid # last.task.oid
        /\ \A k \in 1..Len(persisted) : persisted[k].oid # last.task.oid
        /\ last.task.project \in getProjectFiles(docs) =>
              SectionMatches(Split(docs[last.task.project]), last.task.name) = {}
        /\ last.task.fileId \in DOMAIN docs =>
              NoLineMatches(docs[last.task.fileId], last.task.name)

\* what C16 claims of the state after an Edit flow that changed the project
ProjectMoved ==
    LET P == last.task.project
        Q == last.updated.project
    IN  /\ P \in getProjectFiles(docs) =>
              SectionMatches(Split(docs[P]), last.task.name) = {}
        /\ Q \in getProjectFiles(docs) /\ tasksIndexOf(Split(docs[Q])) # 0 =>
              LET new == Split(docs[Q])
                  h == tasksIndexOf(new)
              IN  Len(new) > h /\ new[h + 1] = TaskLineText(last.updated)
        /\ \E k \in 1..Len(tasks) : tasks[k] = last.updated
        /\ persisted = tasks

\* C16 (as claimed): after an Edit flow that changes the project from P to Q,
\* P's section holds no line matching the original name, Q's section starts
\* with the encoding of the updated task, the in-memory list holds the updated
\* task and the list is persisted.
C16_ProjectChange ==
    EditDone /\ last.updated.project # last.task.project => ProjectMoved

\* the positions of a step label in the steps of a flow
StepsAt(steps, label) == {i \in 1..Len(steps) : steps[i] = label}

\* C17 (as claimed): a toggle flips the in-memory record, then updates the
\* project document's line, then the origin file's line, and only then
\* persists the list: no mirror update comes after the persistence.
C17_TogglePersistsLast ==
    last.kind = "toggle" =>
        LET flip == StepsAt(last.steps, "checklist")
            proj == StepsAt(last.steps, "updateTaskInProjectFile")
            file == StepsAt(last.steps, "updateTaskInFile")
            save == StepsAt(last.steps, "saveCallback")
        IN  /\ flip # {} /\ save # {}
            /\ \A f \in flip, m \in proj \cup file \cup save : f < m
            /\ \A a \in proj, b \in file : a < b
            /\ \A m \in proj \cup file, v \in save : m < v

\* a Create flow that passed the name check
CreateDone == last.kind = "create" /\ last.updated.name # <<>>

\* C18 (as claimed): Create appends the task at the end of the in-memory list
\* and performs no write to the origin document, whatever it contains.
C18_CreateLeavesOrigin ==
    CreateDone =>
        /\ tasks = Append(last.tasksBefore, last.task)
        /\ last.task.fileId \in DOMAIN docs =>
              docs[last.task.fileId] = last.docsBefore[last.task.fileId]

\* C18 (amended): Create appends the task at the end of the in-memory list and
\* adds no line to the origin document: it rewrites the first line of the
\* origin document that already matches the task's name with the task's
\* encoding and leaves the document unwritten when no line matches; the
\* project document receives the mirror line under its heading; every other
\* document is unchanged.
C18_CreateRewritesOriginMatch ==
    CreateDone =>
        /\ tasks = Append(last.tasksBefore, last.task)
        /\ \A f \in DOMAIN docs \ last.failed :
              LET old == Split(last.docsBefore[f])
                  new == Split(docs[f])
                  i == firstMatchIndex(old, last.task.name)
                  h == tasksIndexOf(old)
              IN  IF f = last.task.fileId
                  THEN IF i = 0 THEN docs[f] = last.docsBefore[f]
                       ELSE new = [old EXCEPT ![i] = TaskLineText(last.task)]
                  ELSE IF f = last.task.project /\ h # 0
                  THEN /\ SubSeq(new, 1, h) = SubSeq(old, 1, h)
                       /\ new[h + 1] = TaskLineText(last.task)
                       /\ new[h + 2] = <<>>
                       /\ SubSeq(new, h + 3, Len(new)) = SubSeq(old, h + 1, Len(old))
                  ELSE docs[f] = last.docsBefore[f]

C18_Witness ==
    /\ CreateDone
    /\ last.task.fileId = "N"
    /\ last.task.project = "P"
    /\ last.failed = {}
    /\ docs["N"] # last.docsBefore["N"]
    /\ Split(docs["N"])[1] = TaskLineText(last.task)
    /\ Len(tasks) = 2

\* C19 (as claimed): after every Create, Edit, Toggle or Delete flow the
\* persisted list equals the in-memory list, record for record and in order,
\* and loading it gives every record a tags array.
C19_PersistedEqualsList ==
    last.kind \in FlowKinds =>
        /\ persisted = tasks
        /\ \A k \in 1..Len(persisted) : "tags" \in DOMAIN loadTasks(persisted)[k]

\* the opened record is in the list the flow started from
OpenedListed(l) == \E k \in 1..Len(l.tasksBefore) : l.tasksBefore[k].oid = l.task.oid

\* C23: an Edit replaces exactly the opened record and a Delete removes
\* exactly the opened record; every other record stays, unchanged and in order.
C23_OnlyOpenedRecord ==
    (last.kind \in {"edit", "delete"} /\ last.steps # <<"errorMessage">> /\ OpenedListed(last)) =>
        tasks = IF last.kind = "edit"
                THEN [k \in 1..Len(last.tasksBefore) |->
                         IF last.tasksBefore[k].oid = last.task.oid THEN last.updated
                         ELSE last.tasksBefore[k]]
                ELSE SelectSeq(last.tasksBefore, LAMBDA t : t.oid # last.task.oid)

\* C24: the record an edit submits has the origin of the record that was
\* opened, whichever note is active.
C24_EditKeepsOrigin ==
    EditDone => last.updated.fileId = last.task.fileId

----------------------------------------------------------------------------
(* Completion toggles in flight together: the checkbox change handler     *)
(* (main.ts 363-370) taken one await at a time. A handler's pc names the   *)
(* await it is suspended at; a step resolves that await and runs the       *)
(* handler up to its next await.                                           *)

RaceNames == <<"a", "c">>

\* two tasks created earlier, each mirrored in its project note and, when it
\* has one, in its origin note
RaceLists ==
    {<< [oid |-> 1, name |-> <<RaceNames[1]>>, tags |-> <<>>, date |-> TODAY,
         checklist |-> c1, project |-> "P", fileId |-> f1],
        [oid |-> 2, name |-> <<RaceNames[2]>>, tags |-> <<>>, date |-> TODAY,
         checklist |-> c2, project |-> p2, fileId |-> f2] >> :
        c1 \in BOOLEAN, c2 \in BOOLEAN, p2 \in Projects, f1 \in {"", "N"}, f2 \in {"", "N"}}

\* the lines of the tasks of ts, in list order
RECURSIVE MirrorLines(_)
MirrorLines(ts) ==
    IF ts = <<>> THEN <<>> ELSE <<TaskLineText(ts[1])>> \o MirrorLines(Tail(ts))

RaceDocs(ts) ==
    [f \in Files |->
        IF f \in Projects
        THEN Join(<<HEADING>> \o MirrorLines(SelectSeq(ts, LAMBDA t : t.project = f)))
        ELSE Join(MirrorLines(SelectSeq(ts, LAMBDA t : t.fileId = f)))]

InitRace ==
    /\ tasks \in RaceLists
    /\ persisted = tasks
    /\ rendered = renderTabs(tasks)
    /\ docs = RaceDocs(tasks)
    /\ activeFile = ""
    /\ nOps = 0
    /\ nFail = 0
    /\ last = Idle
    /\ FnIdle
    /\ RaceIdle
    /\ StoreIdle
    /\ DialogIdle

\* the object a handler's closure holds, as the list has it now
LiveTask(h) == CHOOSE t \in {tasks[k] : k \in 1..Len(tasks)} : t.oid = handlers[h].oid

InOrigin(t) == t.fileId # "" /\ t.fileId \in DOMAIN docs

\* the await the handler reaches once its project update is over
AfterProject(t) == IF InOrigin(t) THEN "readFile" ELSE "done"

\* the handler moves on to pc; reaching the end it calls renderTabs
Proceed(h, pc, out, ts) ==
    /\ handlers' = [handlers EXCEPT ![h].pc = pc, ![h].out = out]
    /\ rendered' = IF pc = "done" THEN renderTabs(ts) ELSE rendered

\* mutant: the text written is computed from the document as it is now
modifiedText_fresh(out, current, task) == updateTaskInProjectFile(current, task).text

\* vault.modify(file, lines.join('\n')): the text computed from the content
\* that was read
modifiedText(out, current, task) == out.text

\* the change event: task.checklist = checkbox.checked, and saveCallback is
\* called with the list
Change(h, r) ==
    /\ handlers[h].pc = "idle"
    /\ r \in rendered
    /\ \A g \in Handlers : handlers[g].oid # r.oid
    /\ LET live == CHOOSE t \in {tasks[k] : k \in 1..Len(tasks)} : t.oid = r.oid
           tasks1 == ReplaceObject(tasks, [live EXCEPT !.checklist = ~r.checklist])
       IN  /\ tasks' = tasks1
           /\ persisted' = tasks1
    /\ handlers' = [handlers EXCEPT ![h] = [pc |-> "saveCallback", oid |-> r.oid,
                                            before |-> r.checklist, out |-> NoWrite(<<>>)]]
    /\ UNCHANGED <<rendered, docs, ioLog>>
    /\ UNCHANGED <<activeFile, nOps, nFail, last, fnVars, storeVars, dialogVars>>

\* saveCallback resolves; updateTaskInProjectFile starts and awaits
\* getProjectFiles, or the origin update starts, or the handler renders
SaveDone(h) ==
    /\ handlers[h].pc = "saveCallback"
    /\ Proceed(h, IF LiveTask(h).project # "" THEN "getProjectFiles"
                  ELSE AfterProject(LiveTask(h)), handlers[h].out, tasks)
    /\ UNCHANGED <<tasks, persisted, docs, ioLog>>
    /\ UNCHANGED <<activeFile, nOps, nFail, last, fnVars, storeVars, dialogVars>>

\* getProjectFiles resolves; the project note is looked up and read
ProjectFilesDone(h) ==
    /\ handlers[h].pc = "getProjectFiles"
    /\ Proceed(h, IF LiveTask(h).project \in getProjectFiles(docs) THEN "readProject"
                  ELSE AfterProject(LiveTask(h)), handlers[h].out, tasks)
    /\ UNCHANGED <<tasks, persisted, docs, ioLog>>
    /\ UNCHANGED <<activeFile, nOps, nFail, last, fnVars, storeVars, dialogVars>>

\* vault.read of the project note resolves; the lines are rewritten in memory
\* and vault.modify is called if a line matched
ReadProject(h) ==
    /\ handlers[h].pc = "readProject"
    /\ LET t == LiveTask(h)
           out == updateTaskInProjectFile(docs[t.project], t)
       IN  /\ Proceed(h, IF out.wrote THEN "modifyProject" ELSE AfterProject(t), out, tasks)
           /\ ioLog' = Append(ioLog, [h |-> h, op |-> "read", f |-> t.project])
    /\ UNCHANGED <<tasks, persisted, docs>>
    /\ UNCHANGED <<activeFile, nOps, nFail, last, fnVars, storeVars, dialogVars>>

\* vault.modify of the project note resolves
ModifyProject(h) ==
    /\ handlers[h].pc = "modifyProject"
    /\ LET t == LiveTask(h)
       IN  /\ docs' = [docs EXCEPT ![t.project] = modifiedText(handlers[h].out, @, t)]
           /\ ioLog' = Append(ioLog, [h |-> h, op |-> "write", f |-> t.project])
           /\ Proceed(h, AfterProject(t), handlers[h].out, tasks)
    /\ UNCHANGED <<tasks, persisted>>
    /\ UNCHANGED <<activeFile, nOps, nFail, last, fnVars, storeVars, dialogVars>>

\* vault.read of the origin note resolves
ReadFile(h) ==
    /\ handlers[h].pc = "readFile"
    /\ LET t == LiveTask(h)
           out == updateTaskInFile(docs[t.fileId], t)
       IN  /\ Proceed(h, IF out.wrote THEN "modifyFile" ELSE "done", out, tasks)
           /\ ioLog' = Append(ioLog, [h |-> h, op |-> "read", f |-> t.fileId])
    /\ UNCHANGED <<tasks, persisted, docs>>
    /\ UNCHANGED <<activeFile, nOps, nFail, last, fnVars, storeVars, dialogVars>>

\* vault.modify of the origin note resolves
ModifyFile(h) ==
    /\ handlers[h].pc = "modifyFile"
    /\ LET t == LiveTask(h)
       IN  /\ docs' = [docs EXCEPT ![t.fileId] = modifiedText(handlers[h].out, @, t)]
           /\ ioLog' = Append(ioLog, [h |-> h, op |-> "write", f |-> t.fileId])
           /\ Proceed(h, "done", handlers[h].out, tasks)
    /\ UNCHANGED <<tasks, persisted>>
    /\ UNCHANGED <<activeFile, nOps, nFail, last, fnVars, storeVars, dialogVars>>

NextRace ==
    \/ \E h \in Handlers, r \in rendered : Change(h, r)
    \/ \E h \in Handlers : SaveDone(h)
    \/ \E h \in Handlers : ProjectFilesDone(h)
    \/ \E h \in Handlers : ReadProject(h)
    \/ \E h \in Handlers : ModifyProject(h)
    \/ \E h \in Handlers : ReadFile(h)
    \/ \E h \in Handlers : ModifyFile(h)

SpecRace == InitRace /\ [][NextRace]_vars

\* position in ioLog of handler h's op on document f, 0 when there is none
Pos(h, op, f) ==
    LET at == {i \in 1..Len(ioLog) : ioLog[i] = [h |-> h, op |-> op, f |-> f]}
    IN  IF at = {} THEN 0 ELSE CHOOSE i \in at : TRUE

\* both handlers have read and written document f
BothWrote(g, h, f) == g # h /\ Pos(g, "write", f) > 0 /\ Pos(h, "write", f) > 0

\* both reads of f came before either write
Overlapped(g, h, f) ==
    /\ Pos(g, "read", f) < Pos(h, "write", f)
    /\ Pos(h, "read", f) < Pos(g, "write", f)

HasLine(f, t) == \E i \in 1..Len(Split(docs[f])) : Split(docs[f])[i] = TaskLineText(t)

\* the task of handler h as it was before the toggle
OldTask(h) == [LiveTask(h) EXCEPT !.checklist = handlers[h].before]

\* C20: when two toggles on one document both read it before either writes,
\* the document holds the later writer's new line and still the earlier
\* writer's old line, while the list holds both new states; when the windows
\* do not overlap the document holds both new lines.
C20_LastWriteWins ==
    \A f \in Files : \A g \in Handlers : \A h \in Handlers :
        (BothWrote(g, h, f) /\ Pos(g, "write", f) < Pos(h, "write", f)) =>
            /\ LiveTask(g).checklist = ~handlers[g].before
            /\ LiveTask(h).checklist = ~handlers[h].before
            /\ HasLine(f, LiveTask(h))
            /\ IF Overlapped(g, h, f)
               THEN HasLine(f, OldTask(g)) /\ ~HasLine(f, LiveTask(g))
               ELSE HasLine(f, LiveTask(g)) /\ ~HasLine(f, OldTask(g))

\* one document written with overlapping windows, another without
C20_Witness ==
    \E f \in Files : \E e \in Files : \E g \in Handlers : \E h \in Handlers :
        /\ BothWrote(g, h, f) /\ Overlapped(g, h, f)
        /\ BothWrote(g, h, e) /\ ~Overlapped(g, h, e)
        /\ handlers[g].pc = "done" /\ handlers[h].pc = "done"

----------------------------------------------------------------------------
(* The plugin's storage: one data.json written by saveSettings with the    *)
(* settings object and by saveCallback with the data object                *)

MaxStored == 2

\* a date before TODAY
D0 == <<"2", "0", "2", "4", "-", "0", "4", "-", "3", "0">>

\* the texts typed into the Task Section setting
SectionChoices == {HEADING, <<"#", "#", " ", "T", "o", "d", "o">>}

\* Object.assign({}, a, b)
Assign(a, b) ==
    [k \in DOMAIN a \cup DOMAIN b |-> IF k \in DOMAIN b THEN b[k] ELSE a[k]]

\* Object.assign({}, DEFAULT_SETTINGS, await this.loadData())
loadSettings(stored) ==
    IF stored = Null THEN DEFAULT_SETTINGS ELSE Assign(DEFAULT_SETTINGS, stored)

\* await this.loadData() || { tasks: [] }
loadedData(stored) == IF stored = Null THEN [tasks |-> <<>>] ELSE stored

\* this.data.tasks.map(...) throws when the stored object has no tasks
mapFails(d) == "tasks" \notin DOMAIN d

\* the stored tasks, none when the stored object has no tasks
storedTasks(stored) == IF "tasks" \in DOMAIN stored THEN stored.tasks ELSE <<>>

\* a panel with no project notes in the vault and no active note
InitStore ==
    /\ ViewIdle
    /\ FnIdle
    /\ RaceIdle
    /\ StoreIdle
    /\ DialogIdle

\* saveSettings: await this.saveData(this.settings)
saveSettings(st, d) == st

\* saveCallback: this.data.tasks = tasks; await this.saveData(this.data)
saveCallback(ts) ==
    /\ data' = [data EXCEPT !.tasks = ts]
    /\ disk' = data'
    /\ persisted' = ts

\* addTask of a task with no project and no origin: push, save, render
StoreAdd(name, date) ==
    /\ loadState = "loaded"
    /\ Len(tasks) < MaxStored
    /\ tasks' = Append(tasks, [oid |-> Len(tasks) + 1, name |-> name, tags |-> <<>>,
                               date |-> date, checklist |-> FALSE,
                               project |-> "", fileId |-> ""])
    /\ saveCallback(tasks')
    /\ rendered' = renderTabs(tasks')
    /\ reloaded' = NotReloaded
    /\ UNCHANGED <<settings, loadState>>
    /\ UNCHANGED <<docs, activeFile, nOps, nFail, last, fnVars, raceVars, dialogVars>>

\* the checkbox change handler on a rendered task
StoreToggle(r) ==
    /\ loadState = "loaded"
    /\ r \in rendered
    /\ tasks' = [k \in 1..Len(tasks) |->
                    IF tasks[k].oid = r.oid THEN [tasks[k] EXCEPT !.checklist = ~r.checklist]
                    ELSE tasks[k]]
    /\ saveCallback(tasks')
    /\ rendered' = renderTabs(tasks')
    /\ reloaded' = NotReloaded
    /\ UNCHANGED <<settings, loadState>>
    /\ UNCHANGED <<docs, activeFile, nOps, nFail, last, fnVars, raceVars, dialogVars>>

\* the Task Section text's onChange: set the setting, saveSettings
ChangeSetting(value) ==
    /\ loadState = "loaded"
    /\ settings' = [k \in DOMAIN settings |-> IF k = "taskSection" THEN value ELSE settings[k]]
    /\ disk' = saveSettings(settings', data)
    /\ persisted' = storedTasks(disk')
    /\ reloaded' = NotReloaded
    /\ UNCHANGED <<data, loadState>>
    /\ UNCHANGED <<tasks, rendered, docs, activeFile, nOps, nFail, last, fnVars, raceVars, dialogVars>>

\* the plugin is loaded again: onload on what data.json holds
Reload ==
    /\ reloaded' = [kind |-> IF loadState = "loaded" THEN "reload" ELSE "retry",
                    tasks |-> tasks, taskSection |-> settings.taskSection]
    /\ settings' = loadSettings(disk)
    /\ LET d == loadedData(disk)
       IN  IF mapFails(d)
           THEN /\ loadState' = "error"
                /\ data' = d
                /\ tasks' = <<>>
                /\ rendered' = {}
           ELSE /\ loadState' = "loaded"
                /\ data' = [k \in DOMAIN d |-> IF k = "tasks" THEN loadTasks(d.tasks) ELSE d[k]]
                /\ tasks' = data'.tasks
                /\ rendered' = renderTabs(tasks')
    /\ UNCHANGED <<disk, persisted>>
    /\ UNCHANGED <<docs, activeFile, nOps, nFail, last, fnVars, raceVars, dialogVars>>

\* project notes whose checklist sits under one of the headings
SectionDocs == {Join(<<H, LineAB>>) : H \in SectionChoices}

\* Insert into, and Decode of, a project note while the setting is what it
\* is; fnOrig keeps the configured heading the operations ran under
SectionOps(doc, task) ==
    /\ loadState = "loaded"
    /\ fnOp' = "section"
    /\ fnDoc' = doc
    /\ fnTask' = task
    /\ fnOrig' = settings.taskSection
    /\ fnOut' = appendToProjectFile(doc, task)
    /\ fnOut2' = removeFromProjectFile(doc, <<"a", "b">>)
    /\ fnParsed' = parseProjectTasks(doc)
    /\ reloaded' = NotReloaded
    /\ UNCHANGED <<disk, settings, data, loadState>>
    /\ UNCHANGED <<viewVars, raceVars, dialogVars>>

NextStore ==
    \/ \E doc \in SectionDocs : SectionOps(doc, [name |-> <<"c">>, tags |-> <<>>, date |-> <<>>, checklist |-> FALSE])
    \/ \E name \in Names, date \in {TODAY, <<>>, D0} : StoreAdd(name, date)
    \/ \E r \in rendered : StoreToggle(r)
    \/ \E value \in SectionChoices : ChangeSetting(value)
    \/ Reload

SpecStore == InitStore /\ [][NextStore]_vars

\* C21: a reload that completes yields the task list and the Task Section
\* text that were in memory when the plugin was reloaded.
C21_ReloadYieldsLatest ==
    (reloaded.kind = "reload" /\ loadState = "loaded") =>
        /\ tasks = reloaded.tasks
        /\ settings.taskSection = reloaded.taskSection

\* index of the first line whose trimmed text is the heading H, 0 when none
headingIndex(lines, H) ==
    LET hits == {i \in 1..Len(lines) : Trim(lines[i]) = H}
    IN  IF hits = {} THEN 0 ELSE CHOOSE i \in hits : \A k \in hits : i <= k

\* C28: with the Task Section setting at H, Insert puts the line right after
\* the line whose trimmed text is H, Remove deletes the matching line of that
\* section, and parsing yields the checklist lines of that section.
C28_ConfiguredHeading ==
    LET old == Split(fnDoc)
        h == headingIndex(old, fnOrig)
        new == Split(fnOut.text)
    IN  (fnOp = "section" /\ h # 0) =>
            /\ fnOut.wrote
            /\ Len(new) > h
            /\ new[h + 1] = TaskLineText(fnTask)
            /\ fnOut2.wrote
            /\ Len(fnParsed) = Cardinality({i \in (h + 1)..(SectionEnd(old, h) - 1) : taskMatch(old[i])})

\* C30: every task of the list is listed in exactly one of the Today,
\* Scheduled and Completed tabs.
C30_EveryTaskInOneTab ==
    \A k \in 1..Len(tasks) :
        Cardinality({tab \in {"today", "scheduled", "completed"} :
            tasks[k] \in (CASE tab = "today" -> getTodayTasks(tasks)
                            [] tab = "scheduled" -> getScheduledTasks(tasks)
                            [] tab = "completed" -> getCompletedTasks(tasks))}) = 1

\* C22: every onload on stored data the plugin wrote completes, and ends
\* with a task list whose records all have tags.
C22_LoadSucceeds ==
    reloaded.kind # "none" =>
        /\ loadState = "loaded"
        /\ \A k \in 1..Len(tasks) : "tags" \in DOMAIN tasks[k]

----------------------------------------------------------------------------
(* The tag list of the task dialog, and the tags parsed from a line *)

MaxTags == 2

MARKER == "#"

MaxTagLen == 3

\* what is typed into the tag field or clicked among the suggestions
TagInputs == UNION {[1..k -> {MARKER, "t"}] : k \in 0..MaxTagLen}

\* project notes whose section holds one line with a tag token
TagDocs ==
    {Join(<<HEADING, <<"-", " ", "[", " ", "]", " ", "a", " ">> \o token>>) :
        token \in {<<MARKER, "t">>, <<MARKER, MARKER>>, <<MARKER, "t", MARKER>>}}

\* tag.replace('#', ''): a string pattern replaces its first occurrence only
RECURSIVE replaceFirst(_, _)
replaceFirst(s, c) ==
    IF s = <<>> THEN <<>>
    ELSE IF s[1] = c THEN Tail(s)
    ELSE <<s[1]>> \o replaceFirst(Tail(s), c)

InitTags ==
    /\ fnOp = "init"
    /\ fnDoc \in TagDocs
    /\ fnTask = NoTask
    /\ fnOrig = <<>>
    /\ fnOut = NoWrite(<<>>)
    /\ fnOut2 = NoWrite(<<>>)
    /\ fnParsed = <<>>
    /\ ViewIdle
    /\ RaceIdle
    /\ StoreIdle
    /\ DialogIdle

\* TaskModal.addTag
addTag(tag) ==
    /\ Len(taskTags) < MaxTags
    /\ taskTags' = IF tag # <<>> /\ ~\E i \in 1..Len(taskTags) : taskTags[i] = tag
                   THEN Append(taskTags, replaceFirst(tag, MARKER))
                   ELSE taskTags
    /\ UNCHANGED <<fnVars, viewVars, raceVars, storeVars>>

\* the remove button of a rendered tag
removeTag(tag) ==
    /\ \E i \in 1..Len(taskTags) : taskTags[i] = tag
    /\ taskTags' = SelectSeq(taskTags, LAMBDA t : t # tag)
    /\ UNCHANGED <<fnVars, viewVars, raceVars, storeVars>>

\* Decode of the project note
ApplyParse ==
    /\ fnOp = "init"
    /\ fnOp' = "parse"
    /\ fnParsed' = parseProjectTasks(fnDoc)
    /\ UNCHANGED <<fnDoc, fnTask, fnOrig, fnOut, fnOut2>>
    /\ UNCHANGED <<viewVars, raceVars, storeVars, dialogVars>>

NextTags ==
    \/ \E tag \in TagInputs : addTag(tag)
    \/ \E tag \in Range(taskTags) : removeTag(tag)
    \/ ApplyParse

SpecTags == InitTags /\ [][NextTags]_vars

\* C27: no entry of the dialog's tag list holds the marker character, and no
\* tag parsed from a checklist line holds it.
C27_NoMarkerInTags ==
    /\ \A i \in 1..Len(taskTags) : MARKER \notin Range(taskTags[i])
    /\ \A k \in 1..Len(fnParsed) : \A i \in 1..Len(fnParsed[k].tags) :
           MARKER \notin Range(fnParsed[k].tags[i])

----------------------------------------------------------------------------
(* Decode on documents with several sections and bracket characters *)

LineX == <<"-", " ", "[", "X", "]", " ", "c">>

ParsePool == {HEADING, NOTES, LineA, LineAB, LineX}

ParseDocs == {Join(ls) : ls \in UNION {[1..k -> ParsePool] : k \in 0..MaxDocLines}}

InitParse ==
    /\ fnOp = "init"
    /\ fnDoc \in ParseDocs
    /\ fnTask = NoTask
    /\ fnOrig = <<>>
    /\ fnOut = NoWrite(<<>>)
    /\ fnOut2 = NoWrite(<<>>)
    /\ fnParsed = <<>>
    /\ ViewIdle
    /\ RaceIdle
    /\ StoreIdle
    /\ DialogIdle

NextParse == ApplyParse

SpecParse == InitParse /\ [][NextParse]_vars

\* the members of a set of indices, in increasing order
RECURSIVE Ascending(_)
Ascending(S) == IF S = {} THEN <<>> ELSE <<Min(S)>> \o Ascending(S \ {Min(S)})

\* a line `- [c] <rest>` with a non-empty rest
ChecklistLine(line) ==
    /\ Len(line) >= 7
    /\ SubSeq(line, 1, 3) = <<"-", " ", "[">>
    /\ SubSeq(line, 5, 6) = <<"]", " ">>

\* the lines between the heading and the next line starting with '#'
HeadingToNextHash(lines) ==
    LET h == tasksIndexOf(lines)
    IN  IF h = 0 THEN {} ELSE (h + 1)..(SectionEnd(lines, h) - 1)

\* the lines after the first heading and before the next line that starts
\* with '#' and is not the heading again, the heading lines left out
HeadingToOtherHash(lines) ==
    LET h == tasksIndexOf(lines)
    IN  IF h = 0 THEN {}
        ELSE {i \in (h + 1)..Len(lines) :
                /\ Trim(lines[i]) # HEADING
                /\ \A j \in (h + 1)..i :
                      StartsWith(lines[j], <<"#">>) => Trim(lines[j]) = HEADING}

\* the parsed records are those of the lines `rows`, in order
ParsedAre(lines, rows) ==
    /\ Len(fnParsed) = Len(rows)
    /\ \A k \in 1..Len(rows) :
          LET line == lines[rows[k]]
              rest == SubSeq(line, 7, Len(line))
          IN  /\ k <= Len(fnParsed)
              /\ fnParsed[k].checklist = (line[4] = "x")
              /\ (MARKER \notin Range(rest) /\ "(" \notin Range(rest)) =>
                    /\ fnParsed[k].name = rest
                    /\ fnParsed[k].tags = <<>>
                    /\ fnParsed[k].date = <<>>

\* C29 as stated: one record for every checklist line, whatever its bracket
\* character, between the heading and the next line starting with '#'.
C29_ParseEveryBracket ==
    fnOp = "parse" =>
        LET lines == Split(fnDoc)
        IN  ParsedAre(lines, Ascending({i \in HeadingToNextHash(lines) : ChecklistLine(lines[i])}))

\* C29: parsing yields, in document order, one record for every line
\* `- [c] <rest>` with c a space or x that lies after the first heading and
\* before the next line starting with '#' that is not the heading again, and
\* none for any other line; checklist is true exactly when c is x, and a line
\* with no tag and no date yields empty tags and an empty date.
C29_ParseSpaceOrX ==
    fnOp = "parse" =>
        LET lines == Split(fnDoc)
        IN  ParsedAre(lines, Ascending({i \in HeadingToOtherHash(lines) :
                                          ChecklistLine(lines[i]) /\ lines[i][4] \in {" ", "x"}}))

\* a parsed section holding a line with another bracket character and a
\* complete line: one record, complete
C29_Witness ==
    /\ fnOp = "parse"
    /\ LET lines == Split(fnDoc)
       IN  /\ \E i \in HeadingToOtherHash(lines) : lines[i] = LineX
           /\ \E i \in HeadingToOtherHash(lines) : lines[i] = LineAB
    /\ Len(fnParsed) = 1
    /\ fnParsed[1].checklist

====
